---- MODULE Spec2Model ----
(***************************************************************************)
(* Model of src/index.py: the student-records Flask application.  The      *)
(* state is the SQLite file mahasiswa.db (one set of rows per table plus   *)
(* the AUTOINCREMENT counters of sqlite_sequence), the browser's session   *)
(* cookie, and the response of the last request.  Foreign keys are         *)
(* declared in the schema but SQLite does not enforce them unless          *)
(* PRAGMA foreign_keys is switched on, which the program never does.       *)
(***************************************************************************)
EXTENDS Integers, FiniteSets, Sequences, TLC

VARIABLES db, session, resp, inflight, seen, setters

vars == <<db, session, resp, inflight, seen, setters>>

----------------------------------------------------------------------------
(* Bounds of the model. *)

MaxUsers == 4
MaxKelas == 2
MaxEnroll == 2
MaxNilai == 3
MaxMk == 2
MaxJadwal == 2

\* the ids a URL or a form can carry; the last one of each range may or may
\* not name a row
UserIds == 1..MaxUsers
KelasIds == 1..MaxKelas
EnrollIds == 1..MaxEnroll
MkIds == 1..MaxMk

\* the choices of the two selects: the seeded row and the last account id
FormDosenIds == {2, MaxUsers}
FormMahasiswaIds == {3, MaxUsers}

----------------------------------------------------------------------------
(* Values. *)

\* SQL NULL / Python None in a nullable column of a result row; a present
\* value v is <<v>>.
Null == <<>>

Roles == {"admin", "dosen", "mahasiswa"}

\* role=None of login_required
NoRole == "None"

NoFlash == "-"

\* the session of a browser that is not logged in: an empty dict
EmptySession == [k \in {} |-> 0]

\* werkzeug's salted one-way digest
Digest(salt, password) == <<salt, password>>

generate_password_hash(password) ==
    [salt |-> "s", digest |-> Digest("s", password)]

check_password_hash(pwhash, password) ==
    pwhash.digest = Digest(pwhash.salt, password)

\* what a login form can submit
FormUsernames == {"admin", "dosen1", "mahasiswa1", "baru", "hantu"}
FormPasswords == {"admin123", "dosen123", "mahasiswa123", "salah"}

\* what the add forms can submit for a new account
NewUsernames == {"baru", "dosen1"}
NewPassword == "salah"

\* what the grade form can submit in the field nilai
FormNilai == {"0", "90", "abc"}

\* float(request.form['nilai']): <<x>> is the number, Null is ValueError
float(s) ==
    CASE s = "0" -> <<0>>
      [] s = "90" -> <<90>>
      [] s = "85" -> <<85>>
      [] OTHER -> Null

Methods == {"GET", "POST"}

----------------------------------------------------------------------------
(* The database after init_db has created and seeded it. *)

SeedDb ==
    [users |-> {
        [id |-> 1, username |-> "admin",
         password_hash |-> generate_password_hash("admin123"),
         role |-> "admin", full_name |-> "Administrator"],
        [id |-> 2, username |-> "dosen1",
         password_hash |-> generate_password_hash("dosen123"),
         role |-> "dosen", full_name |-> "Dr. Dosen Satu"],
        [id |-> 3, username |-> "mahasiswa1",
         password_hash |-> generate_password_hash("mahasiswa123"),
         role |-> "mahasiswa", full_name |-> "Budi Mahasiswa"]},
     mahasiswa |-> {[id |-> 3, nim |-> "20231001",
                     alamat |-> "Jl. Merdeka 1", phone |-> "081234567890"]},
     dosen |-> {[id |-> 2, nidn |-> "NIDN12345"]},
     mata_kuliah |-> {[id |-> 1, kode |-> "JARKOM101",
                       nama |-> "Jaringan Komputer", sks |-> 3]},
     kelas |-> {[id |-> 1, nama |-> "Jarkom - Pagi",
                 mata_kuliah_id |-> 1, dosen_id |-> 2]},
     jadwal |-> {[id |-> 1, kelas_id |-> 1,
                  hari |-> "Senin", jam |-> "08:00-10:00"]},
     enroll |-> {[id |-> 1, mahasiswa_id |-> 3, kelas_id |-> 1]},
     nilai |-> {[id |-> 1, enroll_id |-> 1, nilai_angka |-> 85]},
     seq |-> [users |-> 3, mata_kuliah |-> 1, kelas |-> 1,
              jadwal |-> 1, enroll |-> 1, nilai |-> 1]]

----------------------------------------------------------------------------
(* SQL statements.  Each takes the database d and gives the database      *)
(* after the statement and its commit (execute_db commits every            *)
(* statement on its own).                                                  *)

\* lastrowid of an INSERT into an AUTOINCREMENT table
NextId(d, table) == d.seq[table] + 1

InsertUser(d, username, pwhash, role, full_name) ==
    [d EXCEPT !.users = @ \cup {[id |-> NextId(d, "users"),
                                 username |-> username,
                                 password_hash |-> pwhash,
                                 role |-> role, full_name |-> full_name]},
              !.seq.users = @ + 1]

\* the UNIQUE constraint of users.username
UsernameTaken(d, username) == \E u \in d.users : u.username = username

InsertMahasiswa(d, id, nim, alamat, phone) ==
    [d EXCEPT !.mahasiswa = @ \cup {[id |-> id, nim |-> nim,
                                     alamat |-> alamat, phone |-> phone]}]

InsertDosen(d, id, nidn) ==
    [d EXCEPT !.dosen = @ \cup {[id |-> id, nidn |-> nidn]}]

InsertMataKuliah(d, kode, nama, sks) ==
    [d EXCEPT !.mata_kuliah = @ \cup {[id |-> NextId(d, "mata_kuliah"),
                                       kode |-> kode, nama |-> nama,
                                       sks |-> sks]},
              !.seq.mata_kuliah = @ + 1]

InsertKelas(d, nama, mata_kuliah_id, dosen_id) ==
    [d EXCEPT !.kelas = @ \cup {[id |-> NextId(d, "kelas"), nama |-> nama,
                                 mata_kuliah_id |-> mata_kuliah_id,
                                 dosen_id |-> dosen_id]},
              !.seq.kelas = @ + 1]

InsertJadwal(d, kelas_id, hari, jam) ==
    [d EXCEPT !.jadwal = @ \cup {[id |-> NextId(d, "jadwal"),
                                  kelas_id |-> kelas_id,
                                  hari |-> hari, jam |-> jam]},
              !.seq.jadwal = @ + 1]

InsertEnroll(d, mahasiswa_id, kelas_id) ==
    [d EXCEPT !.enroll = @ \cup {[id |-> NextId(d, "enroll"),
                                  mahasiswa_id |-> mahasiswa_id,
                                  kelas_id |-> kelas_id]},
              !.seq.enroll = @ + 1]

InsertNilai(d, enroll_id, nilai_angka) ==
    [d EXCEPT !.nilai = @ \cup {[id |-> NextId(d, "nilai"),
                                 enroll_id |-> enroll_id,
                                 nilai_angka |-> nilai_angka]},
              !.seq.nilai = @ + 1]

UpdateNilai(d, enroll_id, nilai_angka) ==
    [d EXCEPT !.nilai = {IF n.enroll_id = enroll_id
                            THEN [n EXCEPT !.nilai_angka = nilai_angka]
                            ELSE n : n \in @}]

\* DELETE FROM nilai WHERE enroll_id IN (SELECT id FROM enroll WHERE mahasiswa_id=?)
DeleteNilaiOfMahasiswa(d, mhs_id) ==
    [d EXCEPT !.nilai =
        {n \in @ : n.enroll_id \notin
            {e.id : e \in {x \in d.enroll : x.mahasiswa_id = mhs_id}}}]

\* DELETE FROM enroll without its WHERE
DeleteEnrollOfAnyone(d, mhs_id) ==
    [d EXCEPT !.enroll = {}]

DeleteEnrollOfMahasiswa(d, mhs_id) ==
    [d EXCEPT !.enroll = {e \in @ : e.mahasiswa_id # mhs_id}]

DeleteMahasiswa(d, mhs_id) ==
    [d EXCEPT !.mahasiswa = {m \in @ : m.id # mhs_id}]

DeleteUser(d, id) ==
    [d EXCEPT !.users = {u \in @ : u.id # id}]

DeleteDosen(d, dosen_id) ==
    [d EXCEPT !.dosen = {x \in @ : x.id # dosen_id}]

\* unenroll without its DELETE FROM nilai
DeleteNilaiSkipped(d, enroll_id) == d

DeleteNilaiOfEnroll(d, enroll_id) ==
    [d EXCEPT !.nilai = {n \in @ : n.enroll_id # enroll_id}]

DeleteEnroll(d, enroll_id) ==
    [d EXCEPT !.enroll = {e \in @ : e.id # enroll_id}]

----------------------------------------------------------------------------
(* Requests.  A handler takes the database d and the session s of the     *)
(* request and gives the database and session after it, the flashed        *)
(* message and the response.                                               *)

R(d, s, flash, page) == [db |-> d, session |-> s, flash |-> flash, page |-> page]

\* session.get(key)
SessionGet(s, key) == IF key \in DOMAIN s THEN s[key] ELSE "None"

ForbiddenFlash(role) == 
    CASE role = "admin" -> "Akses ditolak: hak akses diperlukan: admin"
      [] role = "dosen" -> "Akses ditolak: hak akses diperlukan: dosen"
      [] OTHER -> "Akses ditolak: hak akses diperlukan: mahasiswa"

\* login_required that checks the login only
login_required_login_only(role, s) ==
    IF "user_id" \notin DOMAIN s THEN "login" ELSE "run"

\* the decorator: "login" and "index" are the two redirects, "run" calls f
login_required(role, s) ==
    IF "user_id" \notin DOMAIN s THEN "login"
    ELSE IF role # NoRole /\ SessionGet(s, "role") # role THEN "index"
    ELSE "run"

\* the response of the decorator when it does not call f
Refused(role, d, s) ==
    IF login_required(role, s) = "login"
    THEN R(d, s, NoFlash, "redirect:login")
    ELSE R(d, s, ForbiddenFlash(role), "redirect:index")

\* a view f wrapped by login_required(role); f only renders a page
protected(role, d, s) ==
    IF login_required(role, s) # "run" THEN Refused(role, d, s)
    ELSE R(d, s, NoFlash, "render:f")

\* login that does not verify the password
login_any_password(d, s, method, username, password) ==
    IF method = "POST"
    THEN LET found == {u \in d.users : u.username = username} IN
         IF found # {}
         THEN LET user == CHOOSE u \in found : TRUE IN
              R(d, [user_id |-> user.id, role |-> user.role,
                    full_name |-> user.full_name],
                "Login berhasil", "redirect:index")
         ELSE R(d, s, "Login gagal: username atau password salah", "render:login")
    ELSE R(d, s, NoFlash, "render:login")

\* login with a message of its own for an unknown username
login_names_the_field(d, s, method, username, password) ==
    IF method = "POST"
    THEN LET found == {u \in d.users : u.username = username} IN
         IF found = {}
         THEN R(d, s, "Login gagal: username tidak dikenal", "render:login")
         ELSE IF check_password_hash((CHOOSE u \in found : TRUE).password_hash, password)
         THEN LET user == CHOOSE u \in found : TRUE IN
              R(d, [user_id |-> user.id, role |-> user.role,
                    full_name |-> user.full_name],
                "Login berhasil", "redirect:index")
         ELSE R(d, s, "Login gagal: username atau password salah", "render:login")
    ELSE R(d, s, NoFlash, "render:login")

login(d, s, method, username, password) ==
    IF method = "POST"
    THEN LET found == {u \in d.users : u.username = username} IN
         IF found # {} /\ check_password_hash((CHOOSE u \in found : TRUE).password_hash, password)
         THEN LET user == CHOOSE u \in found : TRUE IN
              R(d, [user_id |-> user.id, role |-> user.role,
                    full_name |-> user.full_name],
                "Login berhasil", "redirect:index")
         ELSE R(d, s, "Login gagal: username atau password salah", "render:login")
    ELSE R(d, s, NoFlash, "render:login")

logout(d, s) == R(d, EmptySession, "Anda telah logout", "redirect:index")

add_mahasiswa(d, s, method, username, full_name, password, nim, alamat, phone) ==
    IF login_required("admin", s) # "run" THEN Refused("admin", d, s)
    ELSE IF method = "POST"
    THEN IF UsernameTaken(d, username)
         THEN R(d, s, "Gagal menambah: UNIQUE constraint failed: users.username",
                "render:add_mahasiswa")
         ELSE LET uid == NextId(d, "users")
                  d1 == InsertUser(d, username, generate_password_hash(password),
                                   "mahasiswa", full_name)
              IN IF \E m \in d1.mahasiswa : m.id = uid
                 THEN R(d1, s, "Gagal menambah: UNIQUE constraint failed: mahasiswa.id",
                        "render:add_mahasiswa")
                 ELSE R(InsertMahasiswa(d1, uid, nim, alamat, phone), s,
                        "Mahasiswa ditambahkan", "redirect:manage_mahasiswa")
    ELSE R(d, s, NoFlash, "render:add_mahasiswa")

add_dosen(d, s, method, username, full_name, password, nidn) ==
    IF login_required("admin", s) # "run" THEN Refused("admin", d, s)
    ELSE IF method = "POST"
    THEN IF UsernameTaken(d, username)
         THEN R(d, s, "Gagal tambah dosen: UNIQUE constraint failed: users.username",
                "render:add_dosen")
         ELSE LET uid == NextId(d, "users")
                  d1 == InsertUser(d, username, generate_password_hash(password),
                                   "dosen", full_name)
              IN IF \E x \in d1.dosen : x.id = uid
                 THEN R(d1, s, "Gagal tambah dosen: UNIQUE constraint failed: dosen.id",
                        "render:add_dosen")
                 ELSE R(InsertDosen(d1, uid, nidn), s,
                        "Dosen ditambahkan", "redirect:manage_dosen")
    ELSE R(d, s, NoFlash, "render:add_dosen")

\* the k-th statement of delete_mahasiswa
delete_mahasiswa_stmt(d, mhs_id, k) ==
    CASE k = 1 -> DeleteNilaiOfMahasiswa(d, mhs_id)
      [] k = 2 -> DeleteEnrollOfMahasiswa(d, mhs_id)
      [] k = 3 -> DeleteMahasiswa(d, mhs_id)
      [] OTHER -> DeleteUser(d, mhs_id)

\* the database after the first n statements of delete_mahasiswa
delete_mahasiswa_upto(d, mhs_id, n) ==
    LET d1 == delete_mahasiswa_stmt(d, mhs_id, 1)
        d2 == delete_mahasiswa_stmt(d1, mhs_id, 2)
        d3 == delete_mahasiswa_stmt(d2, mhs_id, 3)
        d4 == delete_mahasiswa_stmt(d3, mhs_id, 4)
    IN CASE n = 0 -> d [] n = 1 -> d1 [] n = 2 -> d2 [] n = 3 -> d3 [] OTHER -> d4

\* fail = 0: every statement runs; fail = k: execute_db raises in the k-th
\* statement, after the k-1 before it were committed
delete_mahasiswa(d, s, mhs_id, fail) ==
    IF login_required("admin", s) # "run" THEN Refused("admin", d, s)
    ELSE IF fail = 0
    THEN R(delete_mahasiswa_upto(d, mhs_id, 4), s,
           "Mahasiswa dihapus", "redirect:manage_mahasiswa")
    ELSE R(delete_mahasiswa_upto(d, mhs_id, fail - 1), s,
           "Gagal hapus: OperationalError", "redirect:manage_mahasiswa")

delete_dosen_stmt(d, dosen_id, k) ==
    CASE k = 1 -> DeleteDosen(d, dosen_id)
      [] OTHER -> DeleteUser(d, dosen_id)

delete_dosen_upto(d, dosen_id, n) ==
    LET d1 == delete_dosen_stmt(d, dosen_id, 1)
        d2 == delete_dosen_stmt(d1, dosen_id, 2)
    IN CASE n = 0 -> d [] n = 1 -> d1 [] OTHER -> d2

delete_dosen(d, s, dosen_id, fail) ==
    IF login_required("admin", s) # "run" THEN Refused("admin", d, s)
    ELSE IF fail = 0
    THEN R(delete_dosen_upto(d, dosen_id, 2), s,
           "Dosen dihapus", "redirect:manage_dosen")
    ELSE R(delete_dosen_upto(d, dosen_id, fail - 1), s,
           "Gagal hapus dosen: OperationalError", "redirect:manage_dosen")

add_mata_kuliah(d, s, method, kode, nama, sks) ==
    IF login_required("admin", s) # "run" THEN Refused("admin", d, s)
    ELSE IF method = "POST"
    THEN R(InsertMataKuliah(d, kode, nama, sks), s,
           "Mata kuliah ditambahkan", "redirect:manage_mata_kuliah")
    ELSE R(d, s, NoFlash, "render:add_mata_kuliah")

add_kelas(d, s, nama, mata_kuliah_id, dosen_id) ==
    IF login_required("admin", s) # "run" THEN Refused("admin", d, s)
    ELSE R(InsertKelas(d, nama, mata_kuliah_id, dosen_id), s,
           "Kelas dibuat", "redirect:manage_kelas")

\* enroll_mahasiswa behind a guard that asks for a login of any role
enroll_mahasiswa_any_role(d, s, kelas_id, mahasiswa_id) ==
    IF login_required(NoRole, s) # "run" THEN Refused(NoRole, d, s)
    ELSE R(InsertEnroll(d, mahasiswa_id, kelas_id), s,
           "Mahasiswa di-enroll ke kelas", "redirect:view_kelas")

enroll_mahasiswa(d, s, kelas_id, mahasiswa_id) ==
    IF login_required("admin", s) # "run" THEN Refused("admin", d, s)
    ELSE R(InsertEnroll(d, mahasiswa_id, kelas_id), s,
           "Mahasiswa di-enroll ke kelas", "redirect:view_kelas")

unenroll_stmt(d, enroll_id, k) ==
    CASE k = 1 -> DeleteNilaiOfEnroll(d, enroll_id)
      [] OTHER -> DeleteEnroll(d, enroll_id)

unenroll_upto(d, enroll_id, n) ==
    LET d1 == unenroll_stmt(d, enroll_id, 1)
        d2 == unenroll_stmt(d1, enroll_id, 2)
    IN CASE n = 0 -> d [] n = 1 -> d1 [] OTHER -> d2

\* no try/except here: a raising statement ends the request with a 500
unenroll(d, s, kelas_id, enroll_id, fail) ==
    IF login_required("admin", s) # "run" THEN Refused("admin", d, s)
    ELSE IF fail = 0
    THEN R(unenroll_upto(d, enroll_id, 2), s,
           "Mahasiswa dikeluarkan dari kelas", "redirect:view_kelas")
    ELSE R(unenroll_upto(d, enroll_id, fail - 1), s, NoFlash, "error:500")

manage_jadwal(d, s, method, kelas_id, hari, jam) ==
    IF login_required("admin", s) # "run" THEN Refused("admin", d, s)
    ELSE IF method = "POST"
    THEN R(InsertJadwal(d, kelas_id, hari, jam), s,
           "Jadwal ditambahkan", "redirect:manage_jadwal")
    ELSE R(d, s, NoFlash, "render:manage_jadwal")

----------------------------------------------------------------------------
(* The instructor's and the student's area. *)

\* SELECT e.*, k.dosen_id FROM enroll e JOIN kelas k ON e.kelas_id=k.id WHERE e.id=?
EnrollWithDosen(d, enroll_id) ==
    {[id |-> e.id, mahasiswa_id |-> e.mahasiswa_id, kelas_id |-> e.kelas_id,
      dosen_id |-> k.dosen_id] :
        <<e, k>> \in {p \in d.enroll \X d.kelas :
                        p[1].id = enroll_id /\ p[1].kelas_id = p[2].id}}

\* dosen_set_nilai without the comparison of the class's dosen_id
dosen_set_nilai_any_dosen(d, s, method, enroll_id, form_nilai) ==
    IF login_required("dosen", s) # "run" THEN Refused("dosen", d, s)
    ELSE LET e == EnrollWithDosen(d, enroll_id) IN
         IF e = {}
         THEN R(d, s, "Akses ditolak", "redirect:dosen_dashboard")
         ELSE IF method = "POST"
         THEN LET nilai == float(form_nilai) IN
              IF nilai = Null
              THEN R(d, s, NoFlash, "error:500")
              ELSE IF \E n \in d.nilai : n.enroll_id = enroll_id
                   THEN R(UpdateNilai(d, enroll_id, nilai[1]), s,
                          "Nilai tersimpan", "redirect:dosen_view_kelas")
                   ELSE R(InsertNilai(d, enroll_id, nilai[1]), s,
                          "Nilai tersimpan", "redirect:dosen_view_kelas")
         ELSE R(d, s, NoFlash, "render:dosen_set_nilai")

\* dosen_set_nilai that inserts without looking for an existing row
dosen_set_nilai_insert_only(d, s, method, enroll_id, form_nilai) ==
    IF login_required("dosen", s) # "run" THEN Refused("dosen", d, s)
    ELSE LET e == EnrollWithDosen(d, enroll_id) IN
         IF e = {} \/ (CHOOSE x \in e : TRUE).dosen_id # s.user_id
         THEN R(d, s, "Akses ditolak", "redirect:dosen_dashboard")
         ELSE IF method = "POST"
         THEN LET nilai == float(form_nilai) IN
              IF nilai = Null
              THEN R(d, s, NoFlash, "error:500")
              ELSE R(InsertNilai(d, enroll_id, nilai[1]), s,
                     "Nilai tersimpan", "redirect:dosen_view_kelas")
         ELSE R(d, s, NoFlash, "render:dosen_set_nilai")

dosen_set_nilai(d, s, method, enroll_id, form_nilai) ==
    IF login_required("dosen", s) # "run" THEN Refused("dosen", d, s)
    ELSE LET e == EnrollWithDosen(d, enroll_id) IN
         IF e = {} \/ (CHOOSE x \in e : TRUE).dosen_id # s.user_id
         THEN R(d, s, "Akses ditolak", "redirect:dosen_dashboard")
         ELSE IF method = "POST"
         THEN LET nilai == float(form_nilai) IN
              IF nilai = Null
              THEN R(d, s, NoFlash, "error:500")
              ELSE IF \E n \in d.nilai : n.enroll_id = enroll_id
                   THEN R(UpdateNilai(d, enroll_id, nilai[1]), s,
                          "Nilai tersimpan", "redirect:dosen_view_kelas")
                   ELSE R(InsertNilai(d, enroll_id, nilai[1]), s,
                          "Nilai tersimpan", "redirect:dosen_view_kelas")
         ELSE R(d, s, NoFlash, "render:dosen_set_nilai")

\* x LEFT JOIN rows: the matching rows, or one all-NULL row
LeftJoin(rows) == IF rows = {} THEN {Null} ELSE {<<r>> : r \in rows}

\* Python's  value or '-'  on a number column
OrDash(x) == IF x = Null \/ x = <<0>> THEN "-" ELSE ToString(x[1])

\* the rows of the second query of dosen_view_kelas, as rendered
dosen_view_kelas_rows(d, kelas_id) ==
    UNION {UNION {{[id |-> e.id, username |-> u.username,
                    full_name |-> u.full_name,
                    nilai |-> OrDash(IF n = Null THEN Null ELSE <<n[1].nilai_angka>>)] :
                      n \in LeftJoin({x \in d.nilai : x.enroll_id = e.id})} :
                  u \in {y \in d.users :
                           y.id = e.mahasiswa_id /\ \E m \in d.mahasiswa : m.id = y.id}} :
           e \in {z \in d.enroll : z.kelas_id = kelas_id}}

\* the class the instructor may see: kelas JOIN mata_kuliah, k.id=? AND k.dosen_id=?
OwnKelas(d, kelas_id, user_id) ==
    {k \in d.kelas : /\ k.id = kelas_id
                     /\ k.dosen_id = user_id
                     /\ \E mk \in d.mata_kuliah : mk.id = k.mata_kuliah_id}

dosen_view_kelas(d, s, kelas_id) ==
    IF login_required("dosen", s) # "run" THEN Refused("dosen", d, s)
    ELSE IF OwnKelas(d, kelas_id, s.user_id) = {}
    THEN R(d, s, "Kelas tidak ditemukan atau Anda bukan pengampu",
           "redirect:dosen_dashboard")
    ELSE R(d, s, NoFlash, "render:dosen_view_kelas")

\* the second query of mhs_dashboard without WHERE e.mahasiswa_id=?
mhs_dashboard_rows_of_everyone(d, uid) ==
    UNION {UNION {UNION {{[enroll_id |-> e.id, mk_nama |-> mk.nama,
                           kelas_nama |-> k.nama,
                           hari |-> IF j = Null THEN "-" ELSE j[1].hari,
                           jam |-> IF j = Null THEN "-" ELSE j[1].jam,
                           nilai |-> OrDash(IF n = Null THEN Null
                                            ELSE <<n[1].nilai_angka>>)] :
                            <<n, j>> \in LeftJoin({x \in d.nilai : x.enroll_id = e.id})
                                         \X LeftJoin({x \in d.jadwal : x.kelas_id = k.id})} :
                       mk \in {y \in d.mata_kuliah : y.id = k.mata_kuliah_id}} :
                  k \in {y \in d.kelas : y.id = e.kelas_id}} :
           e \in d.enroll}

\* the rows of the second query of mhs_dashboard, as rendered; enroll_id
\* names the enrollment a row comes from
mhs_dashboard_rows(d, uid) ==
    UNION {UNION {UNION {{[enroll_id |-> e.id, mk_nama |-> mk.nama,
                           kelas_nama |-> k.nama,
                           hari |-> IF j = Null THEN "-" ELSE j[1].hari,
                           jam |-> IF j = Null THEN "-" ELSE j[1].jam,
                           nilai |-> OrDash(IF n = Null THEN Null
                                            ELSE <<n[1].nilai_angka>>)] :
                            <<n, j>> \in LeftJoin({x \in d.nilai : x.enroll_id = e.id})
                                         \X LeftJoin({x \in d.jadwal : x.kelas_id = k.id})} :
                       mk \in {y \in d.mata_kuliah : y.id = k.mata_kuliah_id}} :
                  k \in {y \in d.kelas : y.id = e.kelas_id}} :
           e \in {z \in d.enroll : z.mahasiswa_id = uid}}

\* the first query of mhs_dashboard: users JOIN mahasiswa WHERE u.id=?
MhsUser(d, uid) ==
    {u \in d.users : u.id = uid /\ \E m \in d.mahasiswa : m.id = u.id}

\* user is None makes user['full_name'] raise: a 500
mhs_dashboard(d, s) ==
    IF login_required("mahasiswa", s) # "run" THEN Refused("mahasiswa", d, s)
    ELSE IF MhsUser(d, s.user_id) = {}
    THEN R(d, s, NoFlash, "error:500")
    ELSE R(d, s, NoFlash, "render:mhs_dashboard")

----------------------------------------------------------------------------
(* Pages of the administrator that read a row before they write or render, *)
(* and the instructor's dashboard.                                         *)

UpdateUserFullName(d, id, full_name) ==
    [d EXCEPT !.users = {IF u.id = id THEN [u EXCEPT !.full_name = full_name]
                         ELSE u : u \in @}]

UpdateMahasiswa(d, id, nim, alamat, phone) ==
    [d EXCEPT !.mahasiswa = {IF m.id = id
                                THEN [m EXCEPT !.nim = nim, !.alamat = alamat,
                                               !.phone = phone]
                                ELSE m : m \in @}]

edit_mahasiswa(d, s, method, mhs_id, full_name, nim, alamat, phone) ==
    IF login_required("admin", s) # "run" THEN Refused("admin", d, s)
    ELSE IF MhsUser(d, mhs_id) = {}
    THEN R(d, s, "Mahasiswa tidak ditemukan", "redirect:manage_mahasiswa")
    ELSE IF method = "POST"
    THEN R(UpdateMahasiswa(UpdateUserFullName(d, mhs_id, full_name),
                           mhs_id, nim, alamat, phone), s,
           "Data mahasiswa diperbarui", "redirect:manage_mahasiswa")
    ELSE R(d, s, NoFlash, "render:edit_mahasiswa")

\* the first query of view_kelas: kelas JOIN mata_kuliah WHERE k.id=?
ViewKelasRow(d, kelas_id) ==
    {k \in d.kelas : /\ k.id = kelas_id
                     /\ \E mk \in d.mata_kuliah : mk.id = k.mata_kuliah_id}

\* the second query of view_kelas: enroll JOIN mahasiswa JOIN users
view_kelas_rows(d, kelas_id) ==
    UNION {{[id |-> e.id, username |-> u.username, full_name |-> u.full_name] :
              u \in {y \in d.users :
                       y.id = e.mahasiswa_id /\ \E m \in d.mahasiswa : m.id = y.id}} :
           e \in {z \in d.enroll : z.kelas_id = kelas_id}}

\* k is None makes k['nama'] raise: a 500
view_kelas(d, s, kelas_id) ==
    IF login_required("admin", s) # "run" THEN Refused("admin", d, s)
    ELSE IF ViewKelasRow(d, kelas_id) = {}
    THEN R(d, s, NoFlash, "error:500")
    ELSE R(d, s, NoFlash, "render:view_kelas")

\* the query of dosen_dashboard: kelas JOIN mata_kuliah WHERE k.dosen_id=?
dosen_dashboard_rows(d, user_id) ==
    {[id |-> k.id, nama |-> k.nama, mk_nama |-> mk.nama] :
        <<k, mk>> \in {p \in d.kelas \X d.mata_kuliah :
                         p[1].mata_kuliah_id = p[2].id /\ p[1].dosen_id = user_id}}

dosen_dashboard(d, s) ==
    IF login_required("dosen", s) # "run" THEN Refused("dosen", d, s)
    ELSE R(d, s, NoFlash, "render:dosen_dashboard")

----------------------------------------------------------------------------
(* The state machine: one request at a time, each handled to completion.  *)
(* resp is the response of the last request; it is recorded in the         *)
(* specifications that start from InitLog and left alone in the others.    *)

NotLogged == [op |-> "off", flash |-> NoFlash, page |-> NoFlash]

\* no request of the statement-interleaved specification is under way
Idle == [op |-> "idle", arg |-> 0, pc |-> 0, pre |-> SeedDb]

\* no page has been read in the statement-interleaved specification
NothingSeen == [op |-> "none", view |-> {}, before |-> {}, after |-> {},
                during |-> FALSE]

\* the grade-set requests that can be under way at the same time
SetterIds == {1, 2}

\* a grade-set request that is not under way
NoSetter == [pc |-> "idle", enroll_id |-> 0, nilai |-> 0, existing |-> FALSE]

Init ==
    /\ db = SeedDb
    /\ session = EmptySession
    /\ resp = NotLogged
    /\ inflight = Idle
    /\ seen = NothingSeen
    /\ setters = [t \in SetterIds |-> NoSetter]

InitLog ==
    /\ db = SeedDb
    /\ session = EmptySession
    /\ resp = [op |-> "init", flash |-> NoFlash, page |-> NoFlash]
    /\ inflight = Idle
    /\ seen = NothingSeen
    /\ setters = [t \in SetterIds |-> NoSetter]

\* the counters stay within the bounds of the model
InBounds(d) ==
    /\ d.seq.users <= MaxUsers
    /\ d.seq.kelas <= MaxKelas
    /\ d.seq.enroll <= MaxEnroll
    /\ d.seq.nilai <= MaxNilai
    /\ d.seq.mata_kuliah <= MaxMk
    /\ d.seq.jadwal <= MaxJadwal

\* the request op was answered with r
Apply(op, r) ==
    /\ InBounds(r.db)
    /\ db' = r.db
    /\ session' = r.session
    /\ resp' = IF resp = NotLogged THEN NotLogged
               ELSE [op |-> op, flash |-> r.flash, page |-> r.page]
    /\ UNCHANGED <<inflight, seen, setters>>

Req_login ==
    \E method \in Methods, username \in FormUsernames, password \in FormPasswords :
        /\ Apply("login", login(db, session, method, username, password))

Req_logout == /\ Apply("logout", logout(db, session))

Req_protected ==
    \E role \in Roles \cup {NoRole} :
        /\ Apply("protected", protected(role, db, session))

Req_add_mahasiswa ==
    \E method \in Methods, username \in NewUsernames :
        /\ Apply("add_mahasiswa",
              add_mahasiswa(db, session, method, username, "Baru", NewPassword,
                            "20231002", "Jl. Baru 2", "0812"))

Req_add_dosen ==
    \E method \in Methods, username \in NewUsernames :
        /\ Apply("add_dosen",
              add_dosen(db, session, method, username, "Baru", NewPassword, "NIDN2"))

Req_delete_mahasiswa ==
    \E mhs_id \in UserIds :
        /\ Apply("delete_mahasiswa", delete_mahasiswa(db, session, mhs_id, 0))

Req_delete_dosen ==
    \E dosen_id \in UserIds :
        /\ Apply("delete_dosen", delete_dosen(db, session, dosen_id, 0))

Req_add_mata_kuliah ==
    \E method \in Methods :
        /\ Apply("add_mata_kuliah",
              add_mata_kuliah(db, session, method, "BASDAT101", "Basis Data", 3))

Req_add_kelas ==
    \E mata_kuliah_id \in MkIds, dosen_id \in FormDosenIds :
        /\ Apply("add_kelas", add_kelas(db, session, "Kelas Baru", mata_kuliah_id, dosen_id))

Req_enroll_mahasiswa ==
    \E kelas_id \in KelasIds, mahasiswa_id \in FormMahasiswaIds :
        /\ Apply("enroll_mahasiswa", enroll_mahasiswa(db, session, kelas_id, mahasiswa_id))

Req_unenroll ==
    \E kelas_id \in KelasIds, enroll_id \in EnrollIds :
        /\ Apply("unenroll", unenroll(db, session, kelas_id, enroll_id, 0))

Req_manage_jadwal ==
    \E method \in Methods, kelas_id \in KelasIds :
        /\ Apply("manage_jadwal",
              manage_jadwal(db, session, method, kelas_id, "Selasa", "10:00-12:00"))

Req_dosen_view_kelas ==
    \E kelas_id \in KelasIds :
        /\ Apply("dosen_view_kelas", dosen_view_kelas(db, session, kelas_id))

Req_dosen_set_nilai ==
    \E method \in Methods, enroll_id \in EnrollIds, form_nilai \in FormNilai :
        /\ Apply("dosen_set_nilai",
              dosen_set_nilai(db, session, method, enroll_id, form_nilai))

Req_mhs_dashboard == /\ Apply("mhs_dashboard", mhs_dashboard(db, session))

Req_edit_mahasiswa ==
    \E method \in Methods, mhs_id \in FormMahasiswaIds :
        /\ Apply("edit_mahasiswa",
              edit_mahasiswa(db, session, method, mhs_id, "Budi M.", "20231001",
                             "Jl. Merdeka 2", "0813"))

Req_view_kelas ==
    \E kelas_id \in KelasIds :
        /\ Apply("view_kelas", view_kelas(db, session, kelas_id))

Req_dosen_dashboard == /\ Apply("dosen_dashboard", dosen_dashboard(db, session))

\* accounts, classes, enrollments and grades, and the pages that show them
Next ==
    \/ Req_login
    \/ Req_logout
    \/ Req_add_mahasiswa
    \/ Req_add_dosen
    \/ Req_delete_mahasiswa
    \/ Req_delete_dosen
    \/ Req_add_kelas
    \/ Req_enroll_mahasiswa
    \/ Req_unenroll
    \/ Req_dosen_set_nilai
    \/ Req_dosen_dashboard
    \/ Req_dosen_view_kelas
    \/ Req_mhs_dashboard

Spec == Init /\ [][Next]_vars

\* accounts, sessions and the responses of the guarded pages
NextLog ==
    \/ Req_login
    \/ Req_logout
    \/ Req_protected
    \/ Req_add_mahasiswa
    \/ Req_add_dosen
    \/ Req_delete_mahasiswa
    \/ Req_delete_dosen
    \/ Req_dosen_view_kelas
    \/ Req_mhs_dashboard

SpecLog == InitLog /\ [][NextLog]_vars

\* the administrator's pages of students, courses, class sections,
\* schedule slots and enrollments, with the responses
NextAdmin ==
    \/ Req_login
    \/ Req_logout
    \/ Req_edit_mahasiswa
    \/ Req_add_mata_kuliah
    \/ Req_add_kelas
    \/ Req_view_kelas
    \/ Req_enroll_mahasiswa
    \/ Req_unenroll
    \/ Req_manage_jadwal

SpecAdmin == InitLog /\ [][NextAdmin]_vars

----------------------------------------------------------------------------
(* Storage faults: execute_db raises in one statement of a cascade, after  *)
(* the statements before it were committed.                                *)

Fail_delete_mahasiswa ==
    \E mhs_id \in UserIds, fail \in 1..4 :
        /\ Apply("delete_mahasiswa", delete_mahasiswa(db, session, mhs_id, fail))

Fail_delete_dosen ==
    \E dosen_id \in UserIds, fail \in 1..2 :
        /\ Apply("delete_dosen", delete_dosen(db, session, dosen_id, fail))

Fail_unenroll ==
    \E kelas_id \in KelasIds, enroll_id \in EnrollIds, fail \in 1..2 :
        /\ Apply("unenroll", unenroll(db, session, kelas_id, enroll_id, fail))

NextFail ==
    \/ Req_login
    \/ Req_logout
    \/ Req_delete_mahasiswa
    \/ Req_delete_dosen
    \/ Req_unenroll
    \/ Fail_delete_mahasiswa
    \/ Fail_delete_dosen
    \/ Fail_unenroll

SpecFail == InitLog /\ [][NextFail]_vars

----------------------------------------------------------------------------
(* Requests served at the same time (app.run serves each request in a      *)
(* thread of its own, each with its own connection): a cascade runs one    *)
(* committed statement at a time, and other requests are served between    *)
(* its statements.  inflight is the cascade under way, which has passed    *)
(* the guard with the session its request carried, with the database it    *)
(* started from; session is the cookie the requests served meanwhile       *)
(* carry; seen is the last page one of them has read.                      *)

CascadeLen(op) == IF op = "delete_mahasiswa" THEN 4 ELSE 2

CascadeStmt(op, d, arg, k) ==
    CASE op = "delete_mahasiswa" -> delete_mahasiswa_stmt(d, arg, k)
      [] op = "delete_dosen" -> delete_dosen_stmt(d, arg, k)
      [] OTHER -> unenroll_stmt(d, arg, k)

\* the database a cascade started from d ends with
CascadeEnd(op, d, arg) ==
    CASE op = "delete_mahasiswa" -> delete_mahasiswa_upto(d, arg, 4)
      [] op = "delete_dosen" -> delete_dosen_upto(d, arg, 2)
      [] OTHER -> unenroll_upto(d, arg, 2)

\* the guard has let the request through; no statement has run yet
Begin(op, arg) ==
    /\ inflight = Idle
    /\ login_required("admin", session) = "run"
    /\ inflight' = [op |-> op, arg |-> arg, pc |-> 0, pre |-> db]
    /\ UNCHANGED <<db, session, resp, seen, setters>>

Begin_delete_mahasiswa == \E mhs_id \in UserIds : /\ Begin("delete_mahasiswa", mhs_id)

Begin_delete_dosen == \E dosen_id \in UserIds : /\ Begin("delete_dosen", dosen_id)

Begin_unenroll ==
    \E kelas_id \in KelasIds, enroll_id \in EnrollIds : /\ Begin("unenroll", enroll_id)

\* the next statement of the cascade and its commit
Step_cascade ==
    /\ inflight # Idle
    /\ db' = CascadeStmt(inflight.op, db, inflight.arg, inflight.pc + 1)
    /\ inflight' = IF inflight.pc + 1 = CascadeLen(inflight.op) THEN Idle
                   ELSE [inflight EXCEPT !.pc = @ + 1]
    /\ UNCHANGED <<session, resp, seen, setters>>

\* a page read by another request: what it shows, and what it would show
\* before the cascade under way and after it
Read(op, view, before, after) ==
    /\ seen' = IF inflight = Idle
               THEN [op |-> op, view |-> view, before |-> view, after |-> view,
                     during |-> FALSE]
               ELSE [op |-> op, view |-> view, before |-> before, after |-> after,
                     during |-> TRUE]
    /\ UNCHANGED <<db, session, resp, inflight, setters>>

Read_dosen_view_kelas ==
    \E kelas_id \in KelasIds :
        /\ login_required("dosen", session) = "run"
        /\ OwnKelas(db, kelas_id, session.user_id) # {}
        /\ Read("dosen_view_kelas",
                dosen_view_kelas_rows(db, kelas_id),
                dosen_view_kelas_rows(inflight.pre, kelas_id),
                dosen_view_kelas_rows(CascadeEnd(inflight.op, inflight.pre, inflight.arg),
                                      kelas_id))

\* what mhs_dashboard reads: the account with its profile and the rows
MhsPage(d, uid) == [user |-> MhsUser(d, uid), rows |-> mhs_dashboard_rows(d, uid)]

Read_mhs_dashboard ==
    /\ login_required("mahasiswa", session) = "run"
    /\ Read("mhs_dashboard",
            MhsPage(db, session.user_id),
            MhsPage(inflight.pre, session.user_id),
            MhsPage(CascadeEnd(inflight.op, inflight.pre, inflight.arg), session.user_id))

NextConc ==
    \/ Req_login
    \/ Req_logout
    \/ Begin_delete_mahasiswa
    \/ Begin_delete_dosen
    \/ Begin_unenroll
    \/ Step_cascade
    \/ Read_dosen_view_kelas
    \/ Read_mhs_dashboard

SpecConc == Init /\ [][NextConc]_vars

----------------------------------------------------------------------------
(* Grade-set requests served at the same time.  Each runs the statements   *)
(* of dosen_set_nilai in order on a connection of its own: the query of    *)
(* the enrollment, the query of the existing grade, and the UPDATE or the  *)
(* INSERT with its commit; the statements of the other request run         *)
(* between them.  setters[t] is the position of request t with its locals. *)

\* the guard, the query of the enrollment with its class's dosen_id, and
\* float() of the form's field
Set_begin ==
    \E t \in SetterIds, enroll_id \in EnrollIds, form_nilai \in FormNilai :
        /\ setters[t].pc = "idle"
        /\ login_required("dosen", session) = "run"
        /\ LET e == EnrollWithDosen(db, enroll_id) IN
               e # {} /\ (CHOOSE x \in e : TRUE).dosen_id = session.user_id
        /\ float(form_nilai) # Null
        /\ setters' = [setters EXCEPT ![t] = [pc |-> "check", enroll_id |-> enroll_id,
                                              nilai |-> float(form_nilai)[1],
                                              existing |-> FALSE]]
        /\ UNCHANGED <<db, session, resp, inflight, seen>>

\* existing = query_db('SELECT * FROM nilai WHERE enroll_id=?')
Set_check ==
    \E t \in SetterIds :
        /\ setters[t].pc = "check"
        /\ setters' = [setters EXCEPT
                          ![t].pc = "write",
                          ![t].existing = \E n \in db.nilai :
                                              n.enroll_id = setters[t].enroll_id]
        /\ UNCHANGED <<db, session, resp, inflight, seen>>

\* the UPDATE or the INSERT, committed, and the end of the request
Set_write ==
    \E t \in SetterIds :
        /\ setters[t].pc = "write"
        /\ LET d == IF setters[t].existing
                    THEN UpdateNilai(db, setters[t].enroll_id, setters[t].nilai)
                    ELSE InsertNilai(db, setters[t].enroll_id, setters[t].nilai)
           IN /\ InBounds(d)
              /\ db' = d
        /\ setters' = [setters EXCEPT ![t] = NoSetter]
        /\ UNCHANGED <<session, resp, inflight, seen>>

NextRace ==
    \/ Req_login
    \/ Req_logout
    \/ Req_enroll_mahasiswa
    \/ Set_begin
    \/ Set_check
    \/ Set_write

SpecRace == Init /\ [][NextRace]_vars

----------------------------------------------------------------------------
(* Properties of the grade write. *)

\* the session of a logged-in account with this role
IsSession(s, role) == "user_id" \in DOMAIN s /\ s.role = role

\* the grade values the form can carry
NumericNilai == {v \in FormNilai : float(v) # Null}

\* enrollment E exists and its class section has instructor id = account id
OwnsEnrollment(d, account_id, E) ==
    \E e \in d.enroll : /\ e.id = E
                        /\ \E k \in d.kelas : k.id = e.kelas_id /\ k.dosen_id = account_id

GradesOf(d, E) == {n \in d.nilai : n.enroll_id = E}

\* C1: under an instructor session, a POST of a grade to dosen_set_nilai
\* writes the grade of enrollment E when E exists and its class section's
\* instructor id is the session's account id; in every other case the
\* request is answered "Akses ditolak" with a redirect and the database is
\* left as it was.  (A grade is a number: a field that float() rejects
\* ends the owner's request before any write.)
C1_GradeWriteOnlyByOwner ==
    IsSession(session, "dosen") =>
        \A E \in EnrollIds, v \in FormNilai :
            LET r == dosen_set_nilai(db, session, "POST", E, v) IN
            IF OwnsEnrollment(db, session.user_id, E)
            THEN IF v \in NumericNilai
                 THEN /\ r.flash = "Nilai tersimpan"
                      /\ GradesOf(r.db, E) # {}
                      /\ \A n \in GradesOf(r.db, E) : n.nilai_angka = float(v)[1]
                      /\ {n \in r.db.nilai : n.enroll_id # E}
                           = {n \in db.nilai : n.enroll_id # E}
                 ELSE r.db = db
            ELSE /\ r.flash = "Akses ditolak"
                 /\ r.page = "redirect:dosen_dashboard"
                 /\ r.db = db

\* an instructor is logged in whose own enrollment carries a grade written
\* through the form, next to an enrollment of a class that is not theirs
C1_Witness ==
    /\ IsSession(session, "dosen")
    /\ \E n \in db.nilai : /\ n.nilai_angka # 85
                           /\ OwnsEnrollment(db, session.user_id, n.enroll_id)
    /\ \E e \in db.enroll : ~OwnsEnrollment(db, session.user_id, e.id)

\* C2: every enrollment has at most one grade row.
C2_AtMostOneGrade ==
    \A e \in db.enroll : Cardinality(GradesOf(db, e.id)) <= 1

\* the seeded grade row was overwritten in place and a later enrollment got
\* a grade row of its own
C2_Witness ==
    /\ \E n \in db.nilai : n.id = 1 /\ n.enroll_id = 1 /\ n.nilai_angka # 85
    /\ \E e \in db.enroll : e.id # 1 /\ Cardinality(GradesOf(db, e.id)) = 1

\* the student of enrollment E has an account and a profile
StudentOf(d, E) ==
    {e.mahasiswa_id : e \in {x \in d.enroll :
        /\ x.id = E
        /\ \E u \in d.users : u.id = x.mahasiswa_id /\ u.role = "mahasiswa"
        /\ \E m \in d.mahasiswa : m.id = x.mahasiswa_id}}

----------------------------------------------------------------------------
(* Properties of the cascades. *)

\* C4: deleting student s removes the grades of s's enrollments, the
\* enrollments of s, the profile of s and the account of s, and nothing
\* else: every other row of every table is as before.
C4_DeleteStudentFrame ==
    IsSession(session, "admin") =>
        \A s \in UserIds :
            (\E m \in db.mahasiswa : m.id = s) =>
                LET r == delete_mahasiswa(db, session, s, 0) IN
                /\ r.flash = "Mahasiswa dihapus"
                /\ r.db.nilai = {n \in db.nilai :
                        ~\E e \in db.enroll : e.id = n.enroll_id /\ e.mahasiswa_id = s}
                /\ r.db.enroll = {e \in db.enroll : e.mahasiswa_id # s}
                /\ r.db.mahasiswa = {m \in db.mahasiswa : m.id # s}
                /\ r.db.users = {u \in db.users : u.id # s}
                /\ r.db.dosen = db.dosen
                /\ r.db.mata_kuliah = db.mata_kuliah
                /\ r.db.kelas = db.kelas
                /\ r.db.jadwal = db.jadwal

\* the seeded student was deleted with everything of theirs, and a second
\* student still has account, profile, enrollment and grade
C4_Witness ==
    /\ ~\E u \in db.users : u.id = 3
    /\ ~\E m \in db.mahasiswa : m.id = 3
    /\ ~\E e \in db.enroll : e.mahasiswa_id = 3
    /\ ~\E n \in db.nilai : n.enroll_id = 1
    /\ \E u \in db.users : /\ u.id # 3 /\ u.role = "mahasiswa"
                           /\ \E m \in db.mahasiswa : m.id = u.id
                           /\ \E e \in db.enroll : /\ e.mahasiswa_id = u.id
                                                   /\ GradesOf(db, e.id) # {}

\* C5: unenrolling with (class section K, enrollment E) leaves every other
\* enrollment and grade as it was, the enrollments of class sections other
\* than K among them.
C5_UnenrollOnlyInClass ==
    IsSession(session, "admin") =>
        \A K \in KelasIds, E \in EnrollIds :
            LET r == unenroll(db, session, K, E, 0) IN
            \A e \in db.enroll :
                (e.id # E \/ e.kelas_id # K) =>
                    /\ e \in r.db.enroll
                    /\ GradesOf(r.db, e.id) = GradesOf(db, e.id)

\* the response of a cascade in which a statement raised
CascadeFailed(r) ==
    \/ r.flash = "Gagal hapus: OperationalError"
    \/ r.flash = "Gagal hapus dosen: OperationalError"
    \/ (r.op = "unenroll" /\ r.page = "error:500")

\* C6: a cascade in which a statement fails leaves the database as it was
\* before the request.
C6_CascadeAllOrNothing == [][CascadeFailed(resp') => db' = db]_vars

\* C7: a page read while a cascade is under way shows either what it showed
\* before the cascade or what it shows after it, never a state between.
C7_NoHalfCascadeSeen ==
    seen.during => (seen.view = seen.before \/ seen.view = seen.after)

----------------------------------------------------------------------------
(* Properties of the guard and of login and logout. *)

LoggedIn(s) == "user_id" \in DOMAIN s

\* C8: the guard has exactly one of three outcomes.  Without an account id
\* in the session it redirects to the login page; else, when a role is
\* required and the session's role differs, it warns and redirects to the
\* home page; else it runs the action.  In the first two cases the action
\* does not run: nothing is written.  With no required role only the login
\* is checked.
C8_GuardOutcomes ==
    /\ \A role \in Roles \cup {NoRole} :
        LET g == login_required(role, session)
            r == protected(role, db, session)
            wrong == LoggedIn(session) /\ role # NoRole /\ session.role # role
        IN /\ g \in {"login", "index", "run"}
           /\ (g = "login") <=> ~LoggedIn(session)
           /\ (g = "index") <=> wrong
           /\ (g = "run") <=> (LoggedIn(session) /\ ~wrong)
           /\ ~LoggedIn(session) =>
                r = R(db, session, NoFlash, "redirect:login")
           /\ wrong => r = R(db, session, ForbiddenFlash(role), "redirect:index")
           /\ (LoggedIn(session) /\ ~wrong) => r.page = "render:f"
    /\ \A id \in UserIds :
        LET r == delete_mahasiswa(db, session, id, 0) IN
        /\ ~LoggedIn(session) => r = R(db, session, NoFlash, "redirect:login")
        /\ (LoggedIn(session) /\ session.role # "admin") =>
                r = R(db, session, ForbiddenFlash("admin"), "redirect:index")
        /\ IsSession(session, "admin") => r.flash = "Mahasiswa dihapus"

\* a guarded page was refused to a logged-in account of another role
C8_Witness ==
    /\ resp.op = "protected"
    /\ resp.page = "redirect:index"
    /\ LoggedIn(session)

\* the accounts a username and a password open
Opens(d, username, password) ==
    {a \in d.users : /\ a.username = username
                     /\ check_password_hash(a.password_hash, password)}

\* the requests that go through the guard
GuardedOps ==
    {"protected", "add_mahasiswa", "add_dosen", "delete_mahasiswa", "delete_dosen",
     "add_mata_kuliah", "add_kelas", "enroll_mahasiswa", "unenroll", "manage_jadwal",
     "dosen_view_kelas", "dosen_set_nilai", "mhs_dashboard"}

\* what a login and a logout would do in this state
C9_Now ==
    /\ \A username \in FormUsernames, password \in FormPasswords :
        LET r == login(db, session, "POST", username, password)
            a == Opens(db, username, password)
        IN IF a # {}
           THEN /\ \E x \in a : r.session = [user_id |-> x.id, role |-> x.role,
                                             full_name |-> x.full_name]
                /\ r.flash = "Login berhasil"
           ELSE /\ r.session = session
                /\ r.flash = "Login gagal: username atau password salah"
    /\ logout(db, session).session = EmptySession

\* what the last request did to the session
C9_Step ==
    /\ resp'.op = "logout" => session' = EmptySession
    /\ (resp'.op = "login" /\ resp'.flash # "Login berhasil") => session' = session
    /\ (~LoggedIn(session) /\ LoggedIn(session')) =>
            (resp'.op = "login" /\ resp'.flash = "Login berhasil")
    /\ (~LoggedIn(session) /\ resp'.op \in GuardedOps) =>
            /\ resp'.page = "redirect:login"
            /\ db' = db

\* C9: a login sets the session to the account id, role and display name
\* of account A exactly when the username is A's and A's stored digest
\* verifies the password; a failed login leaves the session as it was;
\* logout empties the session, and from an empty session every guarded
\* request is redirected to the login page until a login succeeds.
C9_LoginLogout == [][C9_Now /\ C9_Step]_vars

\* a login has succeeded for the seeded instructor
C9_Witness ==
    /\ resp.op = "login"
    /\ resp.flash = "Login berhasil"
    /\ session = [user_id |-> 2, role |-> "dosen", full_name |-> "Dr. Dosen Satu"]

\* C10: a failed login with the username of an account and a wrong
\* password has the same message, the same page and the same session as a
\* failed login with a username of no account.
C10_NoUserEnumeration ==
    \A u1 \in FormUsernames, p1 \in FormPasswords,
       u2 \in FormUsernames, p2 \in FormPasswords :
        ( /\ \E a \in db.users : a.username = u1
          /\ Opens(db, u1, p1) = {}
          /\ ~\E a \in db.users : a.username = u2 ) =>
            LET r1 == login(db, session, "POST", u1, p1)
                r2 == login(db, session, "POST", u2, p2)
            IN /\ r1.flash = r2.flash
               /\ r1.page = r2.page
               /\ r1.session = r2.session
               /\ r1.db = r2.db
               /\ r1.flash # "Login berhasil"

\* a login has just failed in a state with accounts and with a username of
\* no account to try
C10_Witness ==
    /\ resp.op = "login"
    /\ resp.flash = "Login gagal: username atau password salah"
    /\ resp.page = "render:login"
    /\ \E u \in FormUsernames : \E a \in db.users : a.username = u
    /\ \E u \in FormUsernames : ~\E a \in db.users : a.username = u

----------------------------------------------------------------------------
(* Properties of the authority to write. *)

\* the tables of accounts, profiles, courses, class sections, schedule
\* slots and enrollments, with their counters
AdminTables(d) ==
    <<d.users, d.mahasiswa, d.dosen, d.mata_kuliah, d.kelas, d.jadwal, d.enroll,
      d.seq.users, d.seq.mata_kuliah, d.seq.kelas, d.seq.jadwal, d.seq.enroll>>

\* the answers of every request for a mutation of those tables
AdminRequests(d, s) ==
    {add_mahasiswa(d, s, "POST", u, "Baru", NewPassword, "20231002", "Jl. Baru 2", "0812") :
        u \in NewUsernames}
    \cup {edit_mahasiswa(d, s, "POST", id, "Budi M.", "20231001", "Jl. Merdeka 2", "0813") :
        id \in UserIds}
    \cup {delete_mahasiswa(d, s, id, 0) : id \in UserIds}
    \cup {add_dosen(d, s, "POST", u, "Baru", NewPassword, "NIDN2") : u \in NewUsernames}
    \cup {delete_dosen(d, s, id, 0) : id \in UserIds}
    \cup {add_mata_kuliah(d, s, "POST", "BASDAT101", "Basis Data", 3)}
    \cup {add_kelas(d, s, "Kelas Baru", mk, id) : mk \in MkIds, id \in UserIds}
    \cup {enroll_mahasiswa(d, s, k, id) : k \in KelasIds, id \in UserIds}
    \cup {unenroll(d, s, k, e, 0) : k \in KelasIds, e \in EnrollIds}
    \cup {manage_jadwal(d, s, "POST", k, "Selasa", "10:00-12:00") : k \in KelasIds}

\* the answers of every request for a grade write
GradeRequests(d, s) ==
    {dosen_set_nilai(d, s, "POST", e, v) : e \in EnrollIds, v \in FormNilai}

\* the answers of the requests that only read or only touch the session
OtherRequests(d, s) ==
    {login(d, s, m, u, p) : m \in Methods, u \in FormUsernames, p \in FormPasswords}
    \cup {logout(d, s), mhs_dashboard(d, s), dosen_dashboard(d, s)}
    \cup {dosen_view_kelas(d, s, k) : k \in KelasIds}
    \cup {view_kelas(d, s, k) : k \in KelasIds}
    \cup {protected(role, d, s) : role \in Roles \cup {NoRole}}

\* C11: no request under a student session changes a stored row; accounts,
\* profiles, courses, class sections, schedule slots and enrollments change
\* only in requests under an administrator session; a request for such a
\* mutation under any other session, or under none, is turned away by the
\* guard and leaves the database as it was.
C11_WriteAuthority ==
    /\ ~IsSession(session, "admin") =>
            \A r \in AdminRequests(db, session) :
                /\ r.db = db
                /\ r.page \in {"redirect:login", "redirect:index"}
    /\ \A r \in GradeRequests(db, session) \cup OtherRequests(db, session) :
            /\ AdminTables(r.db) = AdminTables(db)
            /\ ~IsSession(session, "dosen") => r.db = db
    /\ IsSession(session, "mahasiswa") =>
            \A r \in AdminRequests(db, session) \cup GradeRequests(db, session)
                     \cup OtherRequests(db, session) : r.db = db

\* a logged-in student has asked for the deletion of an account that exists
\* and was sent to the home page
C11_Witness ==
    /\ IsSession(session, "mahasiswa")
    /\ resp.op = "delete_mahasiswa"
    /\ resp.flash = ForbiddenFlash("admin")
    /\ resp.page = "redirect:index"
    /\ \E m \in db.mahasiswa : m.id = session.user_id

----------------------------------------------------------------------------
(* Properties of what a session can read. *)

\* the class sections whose instructor id is the account id
KelasOf(d, account_id) == {k.id : k \in {x \in d.kelas : x.dosen_id = account_id}}

\* C12: the instructor's dashboard lists exactly the class sections whose
\* instructor id is the session's account id; dosen_view_kelas shows class
\* section K, with the enrollments of K and no others, only when K's
\* instructor id is the session's account id, and for every other K, of
\* another instructor or of nobody, it answers with a message and a
\* redirect.
C12_InstructorReadScope ==
    IsSession(session, "dosen") =>
        /\ {row.id : row \in dosen_dashboard_rows(db, session.user_id)}
             = KelasOf(db, session.user_id)
        /\ \A K \in KelasIds :
            LET r == dosen_view_kelas(db, session, K) IN
            /\ r.page = "render:dosen_view_kelas" =>
                    /\ K \in KelasOf(db, session.user_id)
                    /\ \A row \in dosen_view_kelas_rows(db, K) :
                            \E e \in db.enroll : e.id = row.id /\ e.kelas_id = K
            /\ K \notin KelasOf(db, session.user_id) =>
                    /\ r.flash = "Kelas tidak ditemukan atau Anda bukan pengampu"
                    /\ r.page = "redirect:dosen_dashboard"
                    /\ r.db = db

\* the rows of d that belong to account uid as a student: the account and
\* its profile, the enrollments with that student id, and the class
\* sections, courses, schedule slots and grades reached through them
OwnRows(d, uid) ==
    LET en == {e \in d.enroll : e.mahasiswa_id = uid}
        ks == {k \in d.kelas : \E e \in en : e.kelas_id = k.id}
    IN [users |-> {u \in d.users : u.id = uid},
        mahasiswa |-> {m \in d.mahasiswa : m.id = uid},
        enroll |-> en,
        kelas |-> ks,
        mata_kuliah |-> {mk \in d.mata_kuliah : \E k \in ks : k.mata_kuliah_id = mk.id},
        jadwal |-> {j \in d.jadwal : \E k \in ks : j.kelas_id = k.id},
        nilai |-> {n \in d.nilai : \E e \in en : n.enroll_id = e.id}]

\* the stores one request of an administrator or of an instructor away
\* from d
OtherStores(d) ==
    LET admin == [user_id |-> 1, role |-> "admin", full_name |-> "Administrator"]
    IN {r.db : r \in AdminRequests(d, admin)}
       \cup UNION {{r.db : r \in GradeRequests(d, [user_id |-> x.id, role |-> "dosen",
                                                   full_name |-> "Dosen"])} :
                   x \in d.dosen}

\* C13: what mhs_dashboard reads for a student session is a function of
\* the student's own rows: it is the same in the store that holds nothing
\* but those rows, every row shown comes from an enrollment of the
\* session's account id, and any other store that agrees on the own rows
\* gives the same account, the same rows and the same page.
C13_StudentReadScope ==
    IsSession(session, "mahasiswa") =>
        LET uid == session.user_id IN
        /\ MhsPage(db, uid) = MhsPage(OwnRows(db, uid), uid)
        /\ \A row \in mhs_dashboard_rows(db, uid) :
                \E e \in db.enroll : e.id = row.enroll_id /\ e.mahasiswa_id = uid
        /\ \A u \in MhsUser(db, uid) : u.id = uid
        /\ \A d2 \in OtherStores(db) :
                OwnRows(d2, uid) = OwnRows(db, uid) =>
                    /\ MhsPage(d2, uid) = MhsPage(db, uid)
                    /\ mhs_dashboard(d2, session).page = mhs_dashboard(db, session).page

\* a student with an enrollment is logged in while another student has an
\* enrollment with a grade, and a store that differs in the other
\* student's rows only is among the stores compared
C13_Witness ==
    /\ IsSession(session, "mahasiswa")
    /\ mhs_dashboard_rows(db, session.user_id) # {}
    /\ \E e \in db.enroll : e.mahasiswa_id # session.user_id /\ GradesOf(db, e.id) # {}
    /\ \E d2 \in OtherStores(db) :
            /\ d2.nilai # db.nilai
            /\ OwnRows(d2, session.user_id) = OwnRows(db, session.user_id)

----------------------------------------------------------------------------
(* Properties of the references between the tables. *)

\* C14: every row of mahasiswa has the id of an account with role
\* mahasiswa, and every row of dosen has the id of an account with role
\* dosen.
C14_ProfilesHaveAccounts ==
    /\ \A m \in db.mahasiswa :
            \E u \in db.users : u.id = m.id /\ u.role = "mahasiswa"
    /\ \A x \in db.dosen :
            \E u \in db.users : u.id = x.id /\ u.role = "dosen"

\* C15: the dosen_id of every class section is the id of a row of dosen.
C15_KelasDosenExists ==
    \A k \in db.kelas : \E x \in db.dosen : x.id = k.dosen_id

----------------------------------------------------------------------------
(* Properties of the requests that name a row that does not exist. *)

\* a message and a redirect
Handled(r) ==
    /\ r.flash # NoFlash
    /\ r.page \in {"redirect:manage_mahasiswa", "redirect:manage_kelas",
                   "redirect:view_kelas", "redirect:dosen_dashboard"}

NoStudent(d, id) == ~\E m \in d.mahasiswa : m.id = id

NoKelas(d, K) == ~\E k \in d.kelas : k.id = K

NoEnroll(d, E) == ~\E e \in d.enroll : e.id = E

\* C16: a request that names a student, a class section or an enrollment
\* that does not exist (edit student, view class section, enroll into a
\* class section, unenroll, set grade) is answered with a message and a
\* redirect, never with an unhandled error, and leaves the database as it
\* was.
C16_NotFoundHandled ==
    /\ IsSession(session, "admin") =>
        /\ \A id \in UserIds, method \in Methods :
              NoStudent(db, id) =>
                LET r == edit_mahasiswa(db, session, method, id, "Budi M.", "20231001",
                                        "Jl. Merdeka 2", "0813")
                IN Handled(r) /\ r.db = db
        /\ \A K \in KelasIds :
              NoKelas(db, K) => Handled(view_kelas(db, session, K))
        /\ \A K \in KelasIds, id \in UserIds :
              (NoKelas(db, K) \/ NoStudent(db, id)) =>
                LET r == enroll_mahasiswa(db, session, K, id)
                IN Handled(r) /\ r.db = db
        /\ \A K \in KelasIds, E \in EnrollIds :
              (NoKelas(db, K) \/ NoEnroll(db, E)) =>
                LET r == unenroll(db, session, K, E, 0)
                IN Handled(r) /\ r.db = db
    /\ IsSession(session, "dosen") =>
        \A E \in EnrollIds, method \in Methods, v \in FormNilai :
              NoEnroll(db, E) =>
                LET r == dosen_set_nilai(db, session, method, E, v)
                IN Handled(r) /\ r.db = db

----------------------------------------------------------------------------
(* Properties of the grade rows. *)

\* C17: when every request is handled to completion before the next, the
\* enroll_id of every grade row is the id of a row of enroll: a grade is
\* written only for an enrollment that exists, and unenroll and the
\* deletion of a student delete the grades of the enrollments they delete.
C17_NoOrphanGrades ==
    \A n \in db.nilai : \E e \in db.enroll : e.id = n.enroll_id

\* the seeded enrollment was deleted together with its grade, and a grade
\* written later for another enrollment is still there
C17_Witness ==
    /\ NoEnroll(db, 1)
    /\ GradesOf(db, 1) = {}
    /\ \E n \in db.nilai : n.id # 1 /\ \E e \in db.enroll : e.id = n.enroll_id

\* C18: when the statements of two grade-set requests for one enrollment
\* interleave, each request's query of the existing grade followed by its
\* UPDATE or INSERT, the enrollment has at most one grade row once the
\* requests have ended.
C18_RaceLeavesOneGrade ==
    (\A t \in SetterIds : setters[t] = NoSetter) =>
        \A E \in EnrollIds : Cardinality(GradesOf(db, E)) <= 1

====
